---- MODULE Spec2Model ----
(***************************************************************************)
(* The Nginx log watcher (src/watcher.py): one LogWatcher object that      *)
(* tails an access log and, line by line, tracks the serving pool          *)
(* (failover detection), keeps a sliding window of 5xx flags (error-rate   *)
(* monitoring) and sends cooldown-gated alerts to the console and, when    *)
(* configured, to a Slack webhook.                                         *)
(*                                                                         *)
(* The action tail_log_file is the body of the ingestion loop for one      *)
(* line: parse result -> check_failover -> check_error_rate, with every    *)
(* alert they send; tail_log_line is the same from the text of the line.   *)
(* time.time() is the variable clock, which the environment advances       *)
(* between lines.  readline_raises, readline_eof and KeyboardInterrupt are *)
(* the ways the loop, and with it the process, ends.                       *)
(***************************************************************************)
EXTENDS Integers, Sequences, FiniteSets, TLC

VARIABLES
    \* configuration read once in __init__
    maintenance_mode,      \* MAINTENANCE_MODE
    window_size,           \* WINDOW_SIZE
    error_rate_threshold,  \* ERROR_RATE_THRESHOLD (a whole number of percent)
    alert_cooldown_sec,    \* ALERT_COOLDOWN_SEC
    slack_webhook_url,     \* TRUE iff a webhook is configured
    \* state of the LogWatcher
    last_seen_pool,
    request_window,
    last_alert_times,
    \* environment
    clock,                 \* the value time.time() returns
    \* what processing the last line did
    line,                  \* the line, as parse_log_line returned it
    console,               \* lines printed, in order
    posts,                 \* requests.post calls made, in order
    failover_ret,          \* check_failover: the transition it detected, if any
    breach,                \* check_error_rate: the rate over the threshold, if any
    gate,                  \* can_send_alert: its call, if any, and its answer
    \* history
    observed,              \* every flag appended to request_window, in order
    last_dispatch,         \* per alert kind, the clock at its latest console ALERT
    \* the process
    proc,                  \* the tail subprocess of line 328
    raised,                \* what tail_log_file raised to run, if anything
    exit_code,             \* the exit status of the process, once it has one
    \* a second watcher that reads the same lines under the other setting of
    \* MAINTENANCE_MODE (specification SpecTwin only)
    twin

cfg  == <<maintenance_mode, window_size, error_rate_threshold,
          alert_cooldown_sec, slack_webhook_url>>
vars == <<maintenance_mode, window_size, error_rate_threshold,
          alert_cooldown_sec, slack_webhook_url,
          last_seen_pool, request_window, last_alert_times, clock,
          line, console, posts, failover_ret, breach, gate,
          observed, last_dispatch, proc, raised, exit_code, twin>>

-----------------------------------------------------------------------------
(* Bounds of the model *)

MaxClock == 4       \* the clock runs from 0 to MaxClock
MaxOver  == 1       \* lines with a pool that are ingested beyond window_size
MaxFlips == 1       \* changes between failing and successful lines

-----------------------------------------------------------------------------
(* Values *)

\* Python's None for a pool: parse_log_line maps the text "-" to None
None == "None"

\* final_status when the line has no quoted request followed by three digits
NoStatus == -1

Pools == {"blue", "green"}

Kinds == {"failover", "error_rate", "recovery"}

\* tokens of upstream_status: a decimal literal, or text int() rejects
Tok(v)  == [numeric |-> TRUE, val |-> v]
Garbage == [numeric |-> FALSE, val |-> 0]

\* by how much the clock advances between two lines; lines without a pool
\* let it advance by any amount between two lines that have one
Ticks == {0, 1}

\* the configurations of the specifications below
WindowSizes      == {3, 10}
BurstWindowSizes == {20}
LineWindowSizes  == {3}
RunWindowSizes   == {10}
Thresholds       == {30}
BurstThresholds  == {55}
Cooldowns        == {2}

-----------------------------------------------------------------------------
(* Double-precision arithmetic of line 163, (error_count / total_count) * 100. *)
(* A double is [m, e]: MantissaBits binary digits m, the first one 1 and of    *)
(* weight 2^e.  Both operations round to nearest, ties to even.                *)

MantissaBits == 53
LimbBits     == 12

SetMax(S) == CHOOSE x \in S : \A y \in S : y <= x
SetMin(S) == CHOOSE x \in S : \A y \in S : x <= y

\* 2^k mod t, by repeated squaring
RECURSIVE PowMod2(_, _)
PowMod2(k, t) ==
    IF k = 0 THEN 1 % t
    ELSE LET h == PowMod2(k \div 2, t)
             q == (h * h) % t
         IN IF k % 2 = 0 THEN q ELSE (2 * q) % t

\* r * 2^n mod t: what is left of r / t after n binary digits
RemAfter(r, t, n) == (r * PowMod2(n, t)) % t

\* the first n binary digits of the fraction r / t, r < t
Expand(r, t, n) == [i \in 1..n |-> (2 * RemAfter(r, t, i - 1)) \div t]

Zeros(n) == [i \in 1..n |-> 0]

AnyOne(bits) == \E i \in 1..Len(bits) : bits[i] = 1

LeadingZeros(bits) ==
    IF AnyOne(bits) THEN SetMin({i \in 1..Len(bits) : bits[i] = 1}) - 1
    ELSE Len(bits)

\* bits + 1: of the same length, or one digit longer when every digit was 1
Inc(bits) ==
    IF \A i \in 1..Len(bits) : bits[i] = 1 THEN <<1>> \o Zeros(Len(bits))
    ELSE LET k == SetMax({i \in 1..Len(bits) : bits[i] = 0})
         IN [i \in 1..Len(bits) |->
                IF i < k THEN bits[i] ELSE IF i = k THEN 1 ELSE 0]

\* bits (first digit 1, of weight 2^e) rounded to MantissaBits digits; sticky
\* tells of nonzero digits beyond the end of bits
Round(bits, e, sticky) ==
    LET n    == Len(bits)
        m    == IF n >= MantissaBits THEN SubSeq(bits, 1, MantissaBits)
                ELSE bits \o Zeros(MantissaBits - n)
        g    == IF n > MantissaBits THEN bits[MantissaBits + 1] ELSE 0
        rest == IF n > MantissaBits + 1
                THEN AnyOne(SubSeq(bits, MantissaBits + 2, n)) ELSE FALSE
        up   == g = 1 /\ (sticky \/ rest \/ m[MantissaBits] = 1)
        inc  == Inc(m)
    IN IF ~up THEN [m |-> m, e |-> e]
       ELSE IF Len(inc) > MantissaBits
            THEN [m |-> SubSeq(inc, 1, MantissaBits), e |-> e + 1]
            ELSE [m |-> inc, e |-> e]

\* c / t as a double, 0 < c <= t
FDiv(c, t) ==
    IF c = t THEN [m |-> <<1>> \o Zeros(MantissaBits - 1), e |-> 0]
    ELSE LET z    == LeadingZeros(Expand(c, t, 16))
             r0   == RemAfter(c, t, z)
             bits == Expand(r0, t, MantissaBits + 1)
             rem  == RemAfter(r0, t, MantissaBits + 1)
         IN Round(bits, -(z + 1), rem # 0)

\* the integer that at most LimbBits binary digits denote
RECURSIVE ToInt(_)
ToInt(bits) ==
    IF bits = <<>> THEN 0
    ELSE 2 * ToInt(SubSeq(bits, 1, Len(bits) - 1)) + bits[Len(bits)]

LimbToBits(x) == [i \in 1..LimbBits |-> (x \div (2 ^ (LimbBits - i))) % 2]

\* the limbs of bits, least significant first; Len(bits) is a multiple of LimbBits
Limbs(bits) ==
    [j \in 1..(Len(bits) \div LimbBits) |->
        ToInt(SubSeq(bits, Len(bits) - j * LimbBits + 1,
                           Len(bits) - (j - 1) * LimbBits))]

\* limbs * k, carries propagated, least significant limb first
RECURSIVE MulLimbs(_, _, _)
MulLimbs(limbs, k, carry) ==
    IF limbs = <<>> THEN <<>>
    ELSE LET p == Head(limbs) * k + carry
         IN <<p % (2 ^ LimbBits)>>
            \o MulLimbs(Tail(limbs), k, p \div (2 ^ LimbBits))

\* the binary digits of limbs, most significant digit first
RECURSIVE LimbsToBits(_)
LimbsToBits(limbs) ==
    IF limbs = <<>> THEN <<>>
    ELSE LimbsToBits(Tail(limbs)) \o LimbToBits(Head(limbs))

Strip(bits) == SubSeq(bits, LeadingZeros(bits) + 1, Len(bits))

TrimRight(bits) ==
    IF AnyOne(bits)
    THEN SubSeq(bits, 1, SetMax({i \in 1..Len(bits) : bits[i] = 1}))
    ELSE <<>>

\* x * 100 as a double
FMul100(x) ==
    LET padded == Zeros(5 * LimbBits - MantissaBits) \o x.m
        p      == Strip(LimbsToBits(MulLimbs(Limbs(padded), 100, 0)))
    IN Round(p, x.e - (MantissaBits - 1) + (Len(p) - 1), FALSE)

\* (c / t) * 100, 0 <= c <= t, as [whole, frac]: the integer part and the
\* binary digits after the point (none when the double is a whole number)
Percent(c, t) ==
    IF c = 0 THEN [whole |-> 0, frac |-> <<>>]
    ELSE LET x == FMul100(FDiv(c, t)) IN
         IF x.e < 0
         THEN [whole |-> 0, frac |-> TrimRight(Zeros(-(x.e) - 1) \o x.m)]
         ELSE [whole |-> ToInt(SubSeq(x.m, 1, x.e + 1)),
               frac  |-> TrimRight(SubSeq(x.m, x.e + 2, MantissaBits))]

SizeLimit == SetMax(WindowSizes \cup BurstWindowSizes)

\* the doubles (c / t) * 100 for 0 <= c <= t, computed once
PercentTable ==
    [t \in 1..SizeLimit |-> [c \in 0..t |-> Percent(c, t)]]

\* error_rate > self.error_rate_threshold, the threshold a whole number
RateExceeds(rate, threshold) ==
    \/ rate.whole > threshold
    \/ rate.whole = threshold /\ rate.frac # <<>>

-----------------------------------------------------------------------------
(* The LogWatcher's methods.  Each takes the watcher's state s, a record of  *)
(* the fields below, and yields the state after the call:                   *)
(*   maintenance_mode                                   its setting         *)
(*   last_seen_pool, request_window, last_alert_times   the object's fields *)
(*   clock, console, posts                              the environment     *)
(*   failover_ret, breach, gate                         what the calls did  *)
(*   observed, last_dispatch                            history             *)
(*   raised                                             the exception that  *)
(*                                                      left the call, if any *)

\* a dict: a function whose domain is the set of keys present
EmptyDict == [k \in {} |-> 0]

\* d.get(k, default)
Get(d, k, default) == IF k \in DOMAIN d THEN d[k] ELSE default

\* d[k] = v
Put(d, k, v) == [x \in (DOMAIN d) \cup {k} |-> IF x = k THEN v ELSE d[x]]

\* the least number of samples before a rate is computed (line 159)
MinSamples == 10

NoFailover == [detected |-> FALSE, from |-> None, to |-> None]

NoBreach == [detected |-> FALSE, error_rate |-> [whole |-> 0, frac |-> <<>>],
             error_count |-> 0, total_count |-> 0]

NoGate == [asked |-> FALSE, alert_type |-> "", had_entry |-> FALSE,
           last_alert_time |-> 0, current_time |-> 0, ok |-> FALSE]

\* What one requests.post call does: "ok" (status 200), "status" (any other
\* status) or "exception" (connection error, or the 10 s timeout).  NoCall
\* stands where no call is made.  A call is over within the clock's grain.
NoCall == "none"

Outcomes == {"ok", "status", "exception"}

Line(text, kind, at, detail) ==
    [line |-> text, kind |-> kind, at |-> at, detail |-> detail]

\* send_slack_alert that lets the exception of requests.post out
send_slack_alert_reraises(s, kind, detail, net) ==
    LET shown == [s EXCEPT
                    !.console = Append(@, Line("ALERT", kind, s.clock, detail)),
                    !.last_dispatch = Put(@, kind, s.clock)]
    IN IF ~slack_webhook_url THEN shown
       ELSE [shown EXCEPT
               !.posts = Append(@, [kind |-> kind, at |-> s.clock]),
               !.console = Append(@,
                   Line(CASE net = "ok" -> "slack_sent"
                          [] net = "status" -> "slack_bad_status"
                          [] OTHER -> "slack_failed",
                        kind, s.clock, <<>>)),
               !.raised = IF net = "exception" THEN "Exception" ELSE @]

\* send_slack_alert: the console ALERT always, then one post when configured;
\* whatever requests.post raises is caught and printed
send_slack_alert(s, kind, detail, net) ==
    LET shown == [s EXCEPT
                    !.console = Append(@, Line("ALERT", kind, s.clock, detail)),
                    !.last_dispatch = Put(@, kind, s.clock)]
    IN IF ~slack_webhook_url THEN shown
       ELSE [shown EXCEPT
               !.posts = Append(@, [kind |-> kind, at |-> s.clock]),
               !.console = Append(@,
                   Line(CASE net = "ok" -> "slack_sent"
                          [] net = "status" -> "slack_bad_status"
                          [] OTHER -> "slack_failed",
                        kind, s.clock, <<>>))]

\* send_failover_alert with the time recorded under the wrong key
send_failover_alert_wrong_key(s, old_pool, new_pool, net) ==
    LET sent == send_slack_alert(s, "failover", <<old_pool, new_pool>>, net)
    IN [sent EXCEPT
          !.last_alert_times = Put(@, "error_rate", sent.clock)]

\* send_failover_alert: the alert, then the time of the alert is recorded
send_failover_alert(s, old_pool, new_pool, net) ==
    LET sent == send_slack_alert(s, "failover", <<old_pool, new_pool>>, net)
    IN [sent EXCEPT
          !.last_alert_times = Put(@, "failover", sent.clock)]

\* send_error_rate_alert that gives the cooldown slot back when the webhook
\* call fails
send_error_rate_alert_frees_slot(s, error_rate, error_count, total_count, net) ==
    LET sent == send_slack_alert(s, "error_rate",
                                 <<error_rate, error_count, total_count>>, net)
    IN IF net \in {"status", "exception"}
       THEN [sent EXCEPT !.last_alert_times = Put(@, "error_rate", 0)]
       ELSE sent

\* send_error_rate_alert
send_error_rate_alert(s, error_rate, error_count, total_count, net) ==
    send_slack_alert(s, "error_rate",
                     <<error_rate, error_count, total_count>>, net)

Asked(s, alert_type, ok) ==
    [asked           |-> TRUE,
     alert_type      |-> alert_type,
     had_entry       |-> alert_type \in DOMAIN s.last_alert_times,
     last_alert_time |-> Get(s.last_alert_times, alert_type, 0),
     current_time    |-> s.clock,
     ok              |-> ok]

\* can_send_alert that restarts the cooldown when it refuses
can_send_alert_extends(s, alert_type) ==
    LET current_time    == s.clock
        last_alert_time == Get(s.last_alert_times, alert_type, 0)
    IN [ok |-> current_time - last_alert_time >= alert_cooldown_sec,
        s  |-> [s EXCEPT
                  !.last_alert_times = Put(@, alert_type, current_time),
                  !.gate = Asked(s, alert_type,
                                 current_time - last_alert_time
                                   >= alert_cooldown_sec)]]

\* can_send_alert that answers without recording the time
can_send_alert_no_record(s, alert_type) ==
    LET current_time    == s.clock
        last_alert_time == Get(s.last_alert_times, alert_type, 0)
    IN IF current_time - last_alert_time >= alert_cooldown_sec
       THEN [ok |-> TRUE,  s |-> [s EXCEPT !.gate = Asked(s, alert_type, TRUE)]]
       ELSE [ok |-> FALSE, s |-> [s EXCEPT !.gate = Asked(s, alert_type, FALSE)]]

\* can_send_alert: [ok, s], the answer and the state after the call
can_send_alert(s, alert_type) ==
    LET current_time    == s.clock
        last_alert_time == Get(s.last_alert_times, alert_type, 0)
    IN IF current_time - last_alert_time >= alert_cooldown_sec
       THEN [ok |-> TRUE,
             s  |-> [s EXCEPT
                       !.last_alert_times = Put(@, alert_type, current_time),
                       !.gate = Asked(s, alert_type, TRUE)]]
       ELSE [ok |-> FALSE,
             s  |-> [s EXCEPT !.gate = Asked(s, alert_type, FALSE)]]

\* whether check_failover(pool) sends a failover alert from state s
failover_alerts(s, pool) ==
    /\ s.last_seen_pool # None
    /\ pool # s.last_seen_pool
    /\ ~s.maintenance_mode

\* check_failover that, under maintenance mode, leaves the pool as it was
check_failover_quiet_keeps_pool(s, pool, net) ==
    IF s.last_seen_pool = None
    THEN [s EXCEPT
            !.last_seen_pool = pool,
            !.console = Append(@, Line("baseline", "failover", s.clock, <<pool>>)),
            !.failover_ret = NoFailover]
    ELSE IF pool # s.last_seen_pool
    THEN LET old_pool == s.last_seen_pool
             moved    == [s EXCEPT
                            !.last_seen_pool = pool,
                            !.failover_ret =
                                [detected |-> TRUE, from |-> old_pool, to |-> pool]]
         IN IF ~s.maintenance_mode
            THEN send_failover_alert(moved, old_pool, pool, net)
            ELSE [moved EXCEPT
                    !.last_seen_pool = old_pool,
                    !.console = Append(@, Line("suppressed", "failover", s.clock,
                                               <<old_pool, pool>>))]
    ELSE [s EXCEPT !.failover_ret = NoFailover]

\* check_failover that keeps the baseline pool on a transition
check_failover_keeps_pool(s, pool, net) ==
    IF s.last_seen_pool = None
    THEN [s EXCEPT
            !.last_seen_pool = pool,
            !.console = Append(@, Line("baseline", "failover", s.clock, <<pool>>)),
            !.failover_ret = NoFailover]
    ELSE IF pool # s.last_seen_pool
    THEN LET old_pool == s.last_seen_pool
             moved    == [s EXCEPT
                            !.failover_ret =
                                [detected |-> TRUE, from |-> old_pool, to |-> pool]]
         IN IF ~s.maintenance_mode
            THEN send_failover_alert(moved, old_pool, pool, net)
            ELSE [moved EXCEPT
                    !.console = Append(@, Line("suppressed", "failover", s.clock,
                                               <<old_pool, pool>>))]
    ELSE [s EXCEPT !.failover_ret = NoFailover]

\* check_failover
check_failover(s, pool, net) ==
    IF s.last_seen_pool = None
    THEN [s EXCEPT
            !.last_seen_pool = pool,
            !.console = Append(@, Line("baseline", "failover", s.clock, <<pool>>)),
            !.failover_ret = NoFailover]
    ELSE IF pool # s.last_seen_pool
    THEN LET old_pool == s.last_seen_pool
             moved    == [s EXCEPT
                            !.last_seen_pool = pool,
                            !.failover_ret =
                                [detected |-> TRUE, from |-> old_pool, to |-> pool]]
         IN IF ~s.maintenance_mode
            THEN send_failover_alert(moved, old_pool, pool, net)
            ELSE [moved EXCEPT
                    !.console = Append(@, Line("suppressed", "failover", s.clock,
                                               <<old_pool, pool>>))]
    ELSE [s EXCEPT !.failover_ret = NoFailover]

\* has_5xx_error that gives up at the first token int() rejects
has_5xx_error_stops_at_garbage(parsed) ==
    \/ \E i \in 1..Len(parsed.upstream_statuses) :
          LET status == parsed.upstream_statuses[i]
          IN /\ status.numeric /\ 500 <= status.val /\ status.val < 600
             /\ \A j \in 1..(i - 1) : parsed.upstream_statuses[j].numeric
    \/ /\ parsed.final_status # NoStatus
       /\ parsed.final_status # 0
       /\ 500 <= parsed.final_status
       /\ parsed.final_status < 600

\* has_5xx_error of lines 139-153
has_5xx_error(parsed) ==
    \/ \E i \in 1..Len(parsed.upstream_statuses) :
          LET status == parsed.upstream_statuses[i]
          IN status.numeric /\ 500 <= status.val /\ status.val < 600
    \/ /\ parsed.final_status # NoStatus
       /\ parsed.final_status # 0
       /\ 500 <= parsed.final_status
       /\ parsed.final_status < 600

\* deque.append that, when full, overwrites the newest flag
deque_append_drops_newest(window, x, n) ==
    IF n = 0 THEN <<>>
    ELSE IF Len(window) < n THEN Append(window, x)
    ELSE Append(SubSeq(window, 1, n - 1), x)

\* deque(maxlen = n).append(x)
deque_append(window, x, n) ==
    IF n = 0 THEN <<>>
    ELSE IF Len(window) < n THEN Append(window, x)
    ELSE Append(Tail(window), x)

\* sum(self.request_window)
RECURSIVE sum(_)
sum(window) ==
    IF window = <<>> THEN 0
    ELSE (IF Head(window) THEN 1 ELSE 0) + sum(Tail(window))

\* the number of places where a flag differs from the one before it
Flips(flags) ==
    Cardinality({i \in 1..(Len(flags) - 1) : flags[i] # flags[i + 1]})

\* min_requests that never asks for more samples than the window can hold
min_requests_fits_window ==
    LET floor == IF window_size \div 10 > MinSamples
                 THEN window_size \div 10 ELSE MinSamples
    IN IF floor > window_size THEN window_size ELSE floor

\* min_requests without the floor of MinSamples
min_requests_no_floor == window_size \div 10

\* min_requests of line 159: max(10, self.window_size // 10)
min_requests ==
    IF window_size \div 10 > MinSamples THEN window_size \div 10 ELSE MinSamples

Appended(s, parsed) ==
    [s EXCEPT
       !.request_window = deque_append(@, has_5xx_error(parsed), window_size),
       !.observed = Append(@, has_5xx_error(parsed)),
       !.breach = NoBreach]

Found(s) ==
    LET window == s.request_window
    IN [s EXCEPT
          !.breach = [detected    |-> TRUE,
                      error_rate  |-> PercentTable[Len(window)][sum(window)],
                      error_count |-> sum(window),
                      total_count |-> Len(window)]]

Breaches(s) ==
    LET window == s.request_window
    IN /\ Len(window) >= min_requests
       /\ RateExceeds(PercentTable[Len(window)][sum(window)],
                      error_rate_threshold)

\* error_rate_checked with the conjuncts of line 166 in the other order
error_rate_checked_gate_first(s, parsed) ==
    LET appended == Appended(s, parsed)
    IN IF Breaches(appended)
       THEN LET asked == can_send_alert(Found(appended), "error_rate")
            IN [s |-> asked.s, fire |-> asked.ok /\ ~s.maintenance_mode]
       ELSE [s |-> appended, fire |-> FALSE]

\* check_error_rate up to the decision of line 166: [s, fire], the state with
\* the flag appended, the breach found and the cooldown slot taken, and whether
\* send_error_rate_alert is called
error_rate_checked(s, parsed) ==
    LET appended == Appended(s, parsed)
    IN IF Breaches(appended)
       THEN IF s.maintenance_mode
            THEN [s |-> Found(appended), fire |-> FALSE]
            ELSE LET asked == can_send_alert(Found(appended), "error_rate")
                 IN [s |-> asked.s, fire |-> asked.ok]
       ELSE [s |-> appended, fire |-> FALSE]

\* check_error_rate
check_error_rate(s, parsed, net) ==
    LET checked == error_rate_checked(s, parsed)
    IN IF checked.fire
       THEN send_error_rate_alert(checked.s, checked.s.breach.error_rate,
                                  checked.s.breach.error_count,
                                  checked.s.breach.total_count, net)
       ELSE checked.s

-----------------------------------------------------------------------------
(* The ingestion loop *)

\* what parse_log_line returns for the lines of the model
UpstreamStatuses == { <<Tok(200)>>, <<Tok(502), Tok(200)>> }

FinalStatuses == {200}

ParsedLines ==
    [pool : Pools,
     upstream_statuses : UpstreamStatuses,
     final_status : FinalStatuses]
    \cup
    [pool : {None},
     upstream_statuses : { <<Tok(502), Tok(200)>> },
     final_status : FinalStatuses]

\* what parse_log_line returns when it fails (None), and the line before any
\* line was read
NoLine == [pool |-> None, upstream_statuses |-> <<>>, final_status |-> NoStatus]

\* no exit status: the process is running
NoExit == -1

\* a watcher as __init__ leaves it, MAINTENANCE_MODE being mode
Fresh(mode) ==
    [maintenance_mode |-> mode,
     last_seen_pool   |-> None,
     request_window   |-> <<>>,
     last_alert_times |-> EmptyDict,
     clock            |-> 0,
     console          |-> <<>>,
     posts            |-> <<>>,
     failover_ret     |-> NoFailover,
     breach           |-> NoBreach,
     gate             |-> NoGate,
     observed         |-> <<>>,
     last_dispatch    |-> EmptyDict,
     raised           |-> "none"]

Self ==
    [maintenance_mode |-> maintenance_mode,
     last_seen_pool   |-> last_seen_pool,
     request_window   |-> request_window,
     last_alert_times |-> last_alert_times,
     clock            |-> clock,
     console          |-> console,
     posts            |-> posts,
     failover_ret     |-> failover_ret,
     breach           |-> breach,
     gate             |-> gate,
     observed         |-> observed,
     last_dispatch    |-> last_dispatch,
     raised           |-> "none"]

\* the except clauses of tail_log_file and of run: whatever leaves the loop
\* terminates the tail subprocess and ends the process, a KeyboardInterrupt
\* with status 0 and any other exception with status 1
Exits(s) ==
    IF s.raised = "none" THEN UNCHANGED <<proc, raised, exit_code>>
    ELSE /\ proc' = "terminated"
         /\ raised' = s.raised
         /\ exit_code' = IF s.raised = "KeyboardInterrupt" THEN 0 ELSE 1

Becomes(s) ==
    /\ last_seen_pool'   = s.last_seen_pool
    /\ request_window'   = s.request_window
    /\ last_alert_times' = s.last_alert_times
    /\ clock'            = s.clock
    /\ console'          = s.console
    /\ posts'            = s.posts
    /\ failover_ret'     = s.failover_ret
    /\ breach'           = s.breach
    /\ gate'             = s.gate
    /\ observed'         = s.observed
    /\ last_dispatch'    = s.last_dispatch
    /\ Exits(s)
    /\ UNCHANGED cfg

\* watcher s as it takes up a line that arrives dt later
Taken(s, dt) ==
    [s EXCEPT !.clock = @ + dt, !.console = <<>>, !.posts = <<>>,
              !.failover_ret = NoFailover, !.breach = NoBreach,
              !.gate = NoGate]

\* the state in which the loop takes up a line that arrives dt later
Arrived(dt) == Taken(Self, dt)

NetChoices(calls) == IF calls /\ slack_webhook_url THEN Outcomes ELSE {NoCall}

\* lines 346-351 from state start: the states the watcher may be in after
\* them, one for each way the webhook calls may end
Handled(start, parsed) ==
    IF parsed.pool = None THEN {start}
    ELSE UNION {
           LET tracked == check_failover(start, parsed.pool, net1)
           IN { check_error_rate(tracked, parsed, net2) :
                  net2 \in NetChoices(error_rate_checked(tracked, parsed).fire) } :
           net1 \in NetChoices(failover_alerts(start, parsed.pool)) }

\* the lines the model lets a watcher in state start read
Admitted(start, parsed) ==
    /\ start.clock <= MaxClock
    /\ parsed.pool # None
         => /\ Len(start.observed) < window_size + MaxOver
            /\ Flips(Append(start.observed, has_5xx_error(parsed))) <= MaxFlips

\* one turn of the loop of line 338, the line read parsing as parsed
Process(start, parsed) ==
    /\ exit_code = NoExit
    /\ Admitted(start, parsed)
    /\ line' = parsed
    /\ \E s \in Handled(start, parsed) : Becomes(s)
    /\ UNCHANGED twin

tail_log_file ==
    \E parsed \in ParsedLines, dt \in Ticks : Process(Arrived(dt), parsed)

\* one turn of the loop in two watchers that read the same line at the same
\* time, MAINTENANCE_MODE set in one and not in the other
tail_both ==
    \E parsed \in ParsedLines, dt \in Ticks :
        /\ exit_code = NoExit
        /\ Admitted(Arrived(dt), parsed)
        /\ line' = parsed
        /\ \E s \in Handled(Arrived(dt), parsed) : Becomes(s)
        /\ twin' \in Handled(Taken(twin, dt), parsed)

\* proc.stdout.readline raises (an I/O or decoding error): line 357 catches
\* it, prints, terminates the tail process and raises it again to run
readline_raises ==
    /\ exit_code = NoExit
    /\ line' = NoLine
    /\ Becomes([Arrived(0) EXCEPT
                  !.console = <<Line("tail_error", "run", clock, <<>>)>>,
                  !.raised = "Exception"])
    /\ UNCHANGED twin

\* the tail process ends: readline returns '', the sentinel of iter(), the
\* for loop is over, tail_log_file and run return and the interpreter exits
\* with status 0
readline_eof ==
    /\ exit_code = NoExit
    /\ line' = NoLine
    /\ proc' = "ended"
    /\ exit_code' = 0
    /\ UNCHANGED <<cfg, last_seen_pool, request_window, last_alert_times, clock,
                   console, posts, failover_ret, breach, gate, observed,
                   last_dispatch, raised, twin>>

\* the states in which a KeyboardInterrupt may leave send_slack_alert: before
\* the console lines, after them, or in requests.post (no except clause of
\* send_slack_alert catches it)
send_slack_alert_cut(s, kind, detail) ==
    LET shown == [s EXCEPT
                    !.console = Append(@, Line("ALERT", kind, s.clock, detail)),
                    !.last_dispatch = Put(@, kind, s.clock)]
    IN {s, shown}
       \cup (IF slack_webhook_url
             THEN {[shown EXCEPT
                      !.posts = Append(@, [kind |-> kind, at |-> s.clock])]}
             ELSE {})

\* the states in which a KeyboardInterrupt may leave check_failover
check_failover_cut(s, pool) ==
    IF s.last_seen_pool = None
    THEN {s, [s EXCEPT !.last_seen_pool = pool]}
    ELSE IF pool # s.last_seen_pool
    THEN LET old_pool == s.last_seen_pool
             moved    == [s EXCEPT !.last_seen_pool = pool]
         IN {s, moved}
            \cup (IF ~s.maintenance_mode
                  THEN send_slack_alert_cut(moved, "failover", <<old_pool, pool>>)
                       \cup { send_slack_alert(moved, "failover",
                                               <<old_pool, pool>>, net) :
                                net \in NetChoices(TRUE) }
                  ELSE {})
    ELSE {s}

\* the states in which a KeyboardInterrupt may leave check_error_rate
check_error_rate_cut(s, parsed) ==
    LET checked == error_rate_checked(s, parsed)
    IN {s, Appended(s, parsed), checked.s}
       \cup (IF checked.fire
             THEN send_slack_alert_cut(checked.s, "error_rate",
                                       <<checked.s.breach.error_rate,
                                         checked.s.breach.error_count,
                                         checked.s.breach.total_count>>)
             ELSE {})

\* the states in which a KeyboardInterrupt may leave lines 344-351
Cuts(start, parsed) ==
    IF parsed.pool = None THEN {start}
    ELSE check_failover_cut(start, parsed.pool)
         \cup UNION { check_error_rate_cut(
                        check_failover(start, parsed.pool, net1), parsed) :
                      net1 \in NetChoices(failover_alerts(start, parsed.pool)) }

\* SIGINT while a line is in the loop: Python raises KeyboardInterrupt at the
\* bytecode it is at; line 353 terminates the tail process and raises it
\* again, line 371 exits with status 0
KeyboardInterrupt ==
    \E parsed \in ParsedLines, dt \in Ticks :
        /\ exit_code = NoExit
        /\ Admitted(Arrived(dt), parsed)
        /\ line' = parsed
        /\ \E s \in Cuts(Arrived(dt), parsed) :
             Becomes([s EXCEPT !.raised = "KeyboardInterrupt"])
        /\ UNCHANGED twin

\* What the regular expressions of parse_log_line find in a line.  A line is
\* a record of the groups matched: pool and request_time as text, NoMatch
\* where the field is missing; upstream_status as [found, dash, tokens], the
\* text split at its commas, dash telling that the text is "-"; status as the
\* three digits after the quoted request, NoStatus where there are none.  The
\* other fields of the line are parsed and never read.
NoMatch == ""

NoUpstream == [found |-> FALSE, dash |-> FALSE, tokens |-> <<>>]

Dash == [found |-> TRUE, dash |-> TRUE, tokens |-> <<Garbage>>]

Upstream(tokens) == [found |-> TRUE, dash |-> FALSE, tokens |-> tokens]

\* the texts float() accepts, among those of the model
FloatLiterals == {"0.005"}

\* upstream_status and status of the lines of the model
Shape(upstream_status, status) ==
    [upstream_status |-> upstream_status, status |-> status]

Shapes ==
    {Shape(Upstream(<<Tok(200)>>), 200),
     Shape(Upstream(<<Tok(502), Tok(200)>>), 200),
     Shape(Upstream(<<Garbage, Tok(599)>>), NoStatus),
     Shape(NoUpstream, 500),
     Shape(Dash, 200),
     Shape(Upstream(<<Tok(499), Tok(600)>>), 600)}

FailedShapes ==
    {Shape(Upstream(<<Tok(502), Tok(200)>>), 500),
     Shape(Upstream(<<Tok(200)>>), 200)}

RawLine(pool, shape, request_time) ==
    [pool |-> pool, upstream_status |-> shape.upstream_status,
     status |-> shape.status, request_time |-> request_time]

RawLines ==
    \* lines of a pool
    { RawLine(pool, shape, "0.005") : pool \in Pools, shape \in Shapes }
    \cup
    \* lines of no pool
    { RawLine(pool, shape, NoMatch) :
        pool \in {NoMatch, "-"}, shape \in Shapes \cup FailedShapes }
    \cup
    \* lines whose request_time is no number
    { RawLine(pool, shape, "1.2.3") :
        pool \in {"blue", "-"}, shape \in FailedShapes }

\* parse_log_line that reports a malformed request_time and returns the dict
parse_log_line_keeps_going(s, raw) ==
    [parsed |->
       [pool |-> IF raw.pool # NoMatch /\ raw.pool # "-" THEN raw.pool ELSE None,
        upstream_statuses |->
            IF raw.upstream_status.found /\ ~raw.upstream_status.dash
            THEN raw.upstream_status.tokens ELSE <<>>,
        final_status |-> raw.status],
     s |-> IF raw.request_time # NoMatch /\ raw.request_time \notin FloatLiterals
           THEN [s EXCEPT
                   !.console = Append(@, Line("parse_failed", "parse", s.clock,
                                              <<>>))]
           ELSE s]

\* parse_log_line that takes the text "-" for the name of a pool
parse_log_line_keeps_dash(s, raw) ==
    IF raw.request_time # NoMatch /\ raw.request_time \notin FloatLiterals
    THEN [parsed |-> NoLine,
          s |-> [s EXCEPT
                   !.console = Append(@, Line("parse_failed", "parse", s.clock,
                                              <<>>))]]
    ELSE [parsed |->
            [pool |-> IF raw.pool # NoMatch THEN raw.pool ELSE None,
             upstream_statuses |->
                 IF raw.upstream_status.found /\ ~raw.upstream_status.dash
                 THEN raw.upstream_status.tokens ELSE <<>>,
             final_status |-> raw.status],
          s |-> s]

\* parse_log_line: [parsed, s], the dict returned (NoLine for None) and the
\* state after the call; float() raises ValueError on a malformed literal
parse_log_line(s, raw) ==
    IF raw.request_time # NoMatch /\ raw.request_time \notin FloatLiterals
    THEN [parsed |-> NoLine,
          s |-> [s EXCEPT
                   !.console = Append(@, Line("parse_failed", "parse", s.clock,
                                              <<>>))]]
    ELSE [parsed |->
            [pool |-> IF raw.pool # NoMatch /\ raw.pool # "-"
                      THEN raw.pool ELSE None,
             upstream_statuses |->
                 IF raw.upstream_status.found /\ ~raw.upstream_status.dash
                 THEN raw.upstream_status.tokens ELSE <<>>,
             final_status |-> raw.status],
          s |-> s]

\* one turn of the loop, the line read being raw
tail_log_line ==
    \E raw \in RawLines, dt \in Ticks :
        LET r == parse_log_line(Arrived(dt), raw)
        IN Process(r.s, r.parsed)

-----------------------------------------------------------------------------
(* Specifications *)

\* the state after __init__, for a configuration of the given sets
Configured(sizes, thresholds, cooldowns, modes, webhooks) ==
    /\ window_size \in sizes
    /\ error_rate_threshold \in thresholds
    /\ alert_cooldown_sec \in cooldowns
    /\ maintenance_mode \in modes
    /\ slack_webhook_url \in webhooks
    /\ last_seen_pool = None
    /\ request_window = <<>>
    /\ last_alert_times = EmptyDict
    /\ clock = 0
    /\ line = NoLine
    /\ console = <<>>
    /\ posts = <<>>
    /\ failover_ret = NoFailover
    /\ breach = NoBreach
    /\ gate = NoGate
    /\ observed = <<>>
    /\ last_dispatch = EmptyDict
    /\ proc = "running"
    /\ raised = "none"
    /\ exit_code = NoExit
    /\ twin = Fresh(~maintenance_mode)

Init == Configured(WindowSizes, Thresholds, Cooldowns, BOOLEAN, {TRUE})

Next == tail_log_file

Spec == Init /\ [][Next]_vars

\* a watcher with a window of 20 and a threshold of 55 percent, alerting to
\* the console only
InitBurst ==
    Configured(BurstWindowSizes, BurstThresholds, Cooldowns, {FALSE}, {FALSE})

SpecBurst == InitBurst /\ [][Next]_vars

\* a watcher that reads lines of every shape
InitLines == Configured(LineWindowSizes, Thresholds, Cooldowns, BOOLEAN, {TRUE})

NextLines == tail_log_line

SpecLines == InitLines /\ [][NextLines]_vars

\* a watcher and the ways its process ends
InitRun == Configured(RunWindowSizes, Thresholds, Cooldowns, {FALSE}, {TRUE})

NextRun ==
    \/ tail_log_file
    \/ readline_raises
    \/ readline_eof
    \/ KeyboardInterrupt

SpecRun == InitRun /\ [][NextRun]_vars

\* two watchers on one log, alerting to the console only
InitTwin == Configured(WindowSizes, Thresholds, Cooldowns, BOOLEAN, {FALSE})

NextTwin == tail_both

SpecTwin == InitTwin /\ [][NextTwin]_vars

-----------------------------------------------------------------------------
(* Properties *)

\* the console ALERT lines of the given kind among the lines c
AlertLines(c, kind) ==
    {i \in 1..Len(c) : c[i].line = "ALERT" /\ c[i].kind = kind}

\* an alert of the given kind was dispatched while processing the last line
Sent(kind) == AlertLines(console, kind) # {}

\* the console shows an event of the given kind as suppressed
ShownSuppressed(kind) ==
    \E i \in 1..Len(console) :
        console[i].line = "suppressed" /\ console[i].kind = kind

\* the last line had a pool, so both detectors ran on it
Processed == line.pool # None

AllErrors(flags) == \A i \in 1..Len(flags) : flags[i]

\* lastFired[kind] is created or changed by the step
Changed(kind) ==
    /\ kind \in DOMAIN last_alert_times'
    /\ \/ kind \notin DOMAIN last_alert_times
       \/ last_alert_times'[kind] # last_alert_times[kind]

\* C1: with maintenance mode off, once a failover alert has been dispatched
\* at t0, a pool change observed at t dispatches a failover alert if and only
\* if t - t0 >= cooldownSeconds.
C1_FailoverCooldownGated ==
    [][ ( /\ ~maintenance_mode
          /\ "failover" \in DOMAIN last_dispatch
          /\ failover_ret'.detected )
        => ( AlertLines(console', "failover") # {}
               <=> clock' - last_dispatch["failover"] >= alert_cooldown_sec )
      ]_vars

\* C2: any two dispatched error_rate alerts are at least cooldownSeconds
\* apart: an error_rate alert dispatched after an earlier one shows a time at
\* least cooldownSeconds after the earlier one's.
C2_ErrorRateAlertsApart ==
    [][ \A i \in AlertLines(console', "error_rate") :
          "error_rate" \in DOMAIN last_dispatch
            => console'[i].at - last_dispatch["error_rate"] >= alert_cooldown_sec
      ]_vars

\* a second error_rate alert, every line so far having been an error
C2_SecondAlert ==
    /\ Sent("error_rate")
    /\ gate.asked /\ gate.had_entry /\ gate.ok
    /\ AllErrors(observed)

\* C3: a dispatch attempt for a kind with no entry in the cooldown registry
\* succeeds, whatever the clock shows.
C3_NeverFiredEligible ==
    (gate.asked /\ ~gate.had_entry) => gate.ok

\* C4: the window holds at most window_size flags and is exactly the most
\* recent min(n, window_size) of the n flags observed, in arrival order.
C4_WindowIsRecentFlags ==
    LET n == Len(observed)
        k == IF n < window_size THEN n ELSE window_size
    IN /\ Len(request_window) <= window_size
       /\ request_window = SubSeq(observed, n - k + 1, n)

\* flags have been evicted and the rate no longer counts them
C4_Evicted ==
    /\ Len(observed) > window_size
    /\ Len(request_window) = window_size
    /\ sum(request_window) # sum(SubSeq(observed, 1, window_size))

C6_BreachIffRateOverThreshold ==
    (Processed /\ Len(request_window) >= min_requests)
      => /\ breach.detected
            <=> 100 * sum(request_window)
                  > error_rate_threshold * Len(request_window)
         /\ breach.detected
              => /\ breach.error_count = sum(request_window)
                 /\ breach.total_count = Len(request_window)

\* C7: an observation of pool p leaves last_seen_pool = p; the first one
\* reports nothing, a later one reports the transition from the previous pool
\* to p exactly when they differ; last_seen_pool changes in no other step and
\* never becomes None again.
C7_FailoverDetector ==
    [][ /\ line'.pool # None
          => /\ last_seen_pool' = line'.pool
             /\ failover_ret' =
                  IF last_seen_pool # None /\ line'.pool # last_seen_pool
                  THEN [detected |-> TRUE, from |-> last_seen_pool,
                        to |-> line'.pool]
                  ELSE NoFailover
        /\ line'.pool = None
          => last_seen_pool' = last_seen_pool /\ failover_ret' = NoFailover
        /\ last_seen_pool' # last_seen_pool
          => failover_ret'.detected \/ last_seen_pool = None
        /\ last_seen_pool # None => last_seen_pool' # None
      ]_vars

\* a failover from blue to green was just reported
C7_BlueToGreen ==
    /\ failover_ret = [detected |-> TRUE, from |-> "blue", to |-> "green"]
    /\ last_seen_pool = "green"

\* C8: under maintenance mode no alert is rendered, no webhook call is made,
\* and the cooldown registry has no entry for failover or error_rate.
C8_MaintenanceSilent ==
    maintenance_mode
      => /\ \A i \in 1..Len(console) : console[i].line # "ALERT"
         /\ posts = <<>>
         /\ last_dispatch = EmptyDict
         /\ "failover" \notin DOMAIN last_alert_times
         /\ "error_rate" \notin DOMAIN last_alert_times
         /\ ~gate.asked

\* under maintenance mode, with a webhook configured, one line is both a
\* failover and a breach
C8_MaintenanceBothDetected ==
    /\ maintenance_mode
    /\ slack_webhook_url
    /\ failover_ret.detected
    /\ breach.detected

\* C9: under maintenance mode every detected failover and every detected
\* breach is shown on the console as suppressed, in the same step.
C9_MaintenanceShowsSuppressed ==
    maintenance_mode
      => /\ failover_ret.detected => ShownSuppressed("failover")
         /\ breach.detected => ShownSuppressed("error_rate")

\* C10: lastFired of a kind is created or changed only by a dispatch of that
\* kind, and whether an attempt succeeds depends on the clock and on that
\* kind's own entry alone.
C10_CooldownsIndependent ==
    [][ /\ Changed("failover") => AlertLines(console', "failover") # {}
        /\ \A kind \in Kinds \ {"failover"} :
             Changed(kind)
               => gate'.asked /\ gate'.alert_type = kind /\ gate'.ok
        /\ gate'.asked
             => ( gate'.ok
                    <=> gate'.current_time
                          - Get(last_alert_times, gate'.alert_type, 0)
                        >= alert_cooldown_sec )
        /\ (failover_ret'.detected /\ ~maintenance_mode)
             => AlertLines(console', "failover") # {}
      ]_vars

\* an error_rate alert is dispatched while the failover cooldown is running
C10_ErrorRateDuringFailoverCooldown ==
    /\ gate.asked /\ gate.alert_type = "error_rate" /\ gate.ok
    /\ Sent("error_rate")
    /\ "failover" \in DOMAIN last_alert_times
    /\ clock - last_alert_times["failover"] < alert_cooldown_sec

\* the console shows that parse_log_line failed on the last line
ParseFailed(c) == \E i \in 1..Len(c) : c[i].line = "parse_failed"

\* C11: ingesting a line that names no pool (pool=- or no pool field) leaves
\* last_seen_pool, the window and the cooldown registry as they were and
\* dispatches no alert, whatever its upstream and final statuses.
C11_NoPoolNoEffect ==
    [][ line'.pool \notin Pools
          => /\ last_seen_pool' = last_seen_pool
             /\ request_window' = request_window
             /\ last_alert_times' = last_alert_times
             /\ observed' = observed
             /\ AlertLines(console', "failover") = {}
             /\ AlertLines(console', "error_rate") = {}
             /\ posts' = <<>>
      ]_vars

\* a line of no pool that carries a 5xx, read by a watcher that has a pool,
\* flags in its window and a failover on record
C11_NoPoolLineWith5xx ==
    /\ line.pool = None
    /\ has_5xx_error(line)
    /\ ~ParseFailed(console)
    /\ last_seen_pool # None
    /\ request_window # <<>>
    /\ "failover" \in DOMAIN last_alert_times

\* the status codes a line carries: its upstream tokens that are integers,
\* and its final status
Codes(parsed) ==
    { parsed.upstream_statuses[i].val :
        i \in { j \in 1..Len(parsed.upstream_statuses) :
                  parsed.upstream_statuses[j].numeric } }
    \cup (IF parsed.final_status = NoStatus THEN {} ELSE {parsed.final_status})

\* C12: the flag appended for a line is true exactly when one of its upstream
\* tokens is an integer in [500, 600) or its final status is in [500, 600).
C12_FlagIffAny5xx ==
    Processed
      => /\ observed # <<>>
         /\ observed[Len(observed)] = (Codes(line) \cap (500..599) # {})
         /\ request_window[Len(request_window)] = observed[Len(observed)]

\* upstream_status=502,200 with final status 200 is flagged
C12_RetryAfter502Flagged ==
    /\ Processed
    /\ line.upstream_statuses = <<Tok(502), Tok(200)>>
    /\ line.final_status = 200
    /\ observed[Len(observed)]

\* C16: a line on which parse_log_line raises is dropped: last_seen_pool, the
\* window and the cooldown registry stay as they were, no alert is
\* dispatched, and the loop goes on.
C16_UnparseableDropped ==
    [][ ParseFailed(console')
          => /\ line' = NoLine
             /\ last_seen_pool' = last_seen_pool
             /\ request_window' = request_window
             /\ last_alert_times' = last_alert_times
             /\ observed' = observed
             /\ \A i \in 1..Len(console') : console'[i].line # "ALERT"
             /\ posts' = <<>>
             /\ exit_code' = NoExit /\ proc' = "running" /\ raised' = "none"
      ]_vars

\* a line was dropped by a watcher that has a pool and flags in its window
C16_DroppedMidStream ==
    /\ ParseFailed(console)
    /\ exit_code = NoExit
    /\ last_seen_pool # None
    /\ request_window # <<>>

\* C13: when the line source fails after the stream was established
\* (readline raises, or the tail process ends so that no line can follow),
\* the failure is raised to run and the process exits with a status other
\* than 0; it never ends with status 0.
C13_SourceFailureIsFatal ==
    (exit_code # NoExit /\ (proc = "ended" \/ raised = "Exception"))
      => raised = "Exception" /\ exit_code # 0

\* the step leaves the watcher in state s
Leaves(s) ==
    /\ last_seen_pool'   = s.last_seen_pool
    /\ request_window'   = s.request_window
    /\ last_alert_times' = s.last_alert_times
    /\ console'          = s.console
    /\ posts'            = s.posts

\* C14: a shutdown signal that arrives while a line is in the loop lets the
\* processing of that line complete (a cooldown slot taken for an alert is
\* followed by the alert), dispatches no alert twice, and the process exits
\* with status 0.
C14_CancellationGraceful ==
    [][ raised' = "KeyboardInterrupt"
          => /\ exit_code' = 0
             /\ \E dt \in Ticks : \E s \in Handled(Arrived(dt), line') : Leaves(s)
             /\ (gate'.asked /\ gate'.ok)
                  => AlertLines(console', gate'.alert_type) # {}
             /\ \A kind \in Kinds : Cardinality(AlertLines(console', kind)) <= 1
      ]_vars

\* the last n of flags, or all of them when there are fewer
Recent(flags, n) ==
    SubSeq(flags, (IF Len(flags) > n THEN Len(flags) - n ELSE 0) + 1, Len(flags))

\* the console lines that report a webhook call that did not succeed
FailureLines(c) ==
    {i \in 1..Len(c) : c[i].line \in {"slack_bad_status", "slack_failed"}}

\* C15: when the webhook call of a dispatched alert fails (exception, timeout
\* or a status other than 200), there is exactly one call per alert, nothing
\* is raised and the loop keeps running, and last_seen_pool and the window
\* are what the lines read make them: the pool of the line, and the most
\* recent flags with the flag of the line appended.
C15_TransportFailureSwallowed ==
    FailureLines(console) # {}
      => /\ \A kind \in Kinds :
              Cardinality({i \in 1..Len(posts) : posts[i].kind = kind})
                = Cardinality(AlertLines(console, kind))
         /\ raised = "none" /\ exit_code = NoExit /\ proc = "running"
         /\ last_seen_pool = line.pool
         /\ observed # <<>>
         /\ observed[Len(observed)] = (Codes(line) \cap (500..599) # {})
         /\ request_window = Recent(observed, window_size)

\* one line dispatched a failover alert and an error_rate alert, and both
\* webhook calls failed
C15_BothCallsFailed ==
    /\ Sent("failover") /\ Sent("error_rate")
    /\ Len(posts) = 2
    /\ Cardinality(FailureLines(console)) = 2
    /\ exit_code = NoExit

\* C17: two watchers that read the same lines, one under maintenance mode and
\* one not, have the same last_seen_pool and the same window after every
\* line.
C17_DetectionIgnoresMaintenance ==
    /\ twin.maintenance_mode # maintenance_mode
    /\ twin.last_seen_pool = last_seen_pool
    /\ twin.request_window = request_window

\* the two watchers differ in what they dispatched: one line is a failover
\* and a breach in both, and only the watcher not under maintenance alerts
\* and has cooldown entries
C17_SameDetectionOtherDispatch ==
    /\ failover_ret.detected /\ twin.failover_ret.detected
    /\ breach.detected /\ twin.breach.detected
    /\ (Sent("failover") /\ Sent("error_rate"))
         # (AlertLines(twin.console, "failover") # {}
             /\ AlertLines(twin.console, "error_rate") # {})
    /\ last_alert_times # twin.last_alert_times

\* the last can_send_alert call was for error_rate
AskedErrorRate == gate.asked /\ gate.alert_type = "error_rate"

\* the registry entry of error_rate is what the last call found
EntryAsFound ==
    IF gate.had_entry
    THEN /\ "error_rate" \in DOMAIN last_alert_times
         /\ last_alert_times["error_rate"] = gate.last_alert_time
    ELSE "error_rate" \notin DOMAIN last_alert_times

\* C18: with maintenance mode off every breach asks for an alert; an attempt
\* that the cooldown refuses leaves lastFired as it was and prints and posts
\* nothing, and an attempt made once lastFired exists succeeds exactly when
\* now - lastFired >= cooldownSeconds, dispatches the alert and records now.
C18_RefusalHasNoEffect ==
    /\ (breach.detected /\ ~maintenance_mode)
         => AskedErrorRate /\ gate.current_time = clock
    /\ (AskedErrorRate /\ ~gate.ok)
         => /\ EntryAsFound
            /\ ~Sent("error_rate")
            /\ \A i \in 1..Len(posts) : posts[i].kind # "error_rate"
    /\ (AskedErrorRate /\ gate.had_entry)
         => /\ gate.ok <=> clock - gate.last_alert_time >= alert_cooldown_sec
            /\ gate.ok => /\ Sent("error_rate")
                          /\ last_alert_times["error_rate"] = clock

\* a breach is refused one second before the cooldown of the last alert ends
C18_RefusedBeforeExpiry ==
    /\ breach.detected
    /\ AskedErrorRate /\ gate.had_entry /\ ~gate.ok
    /\ clock - gate.last_alert_time = alert_cooldown_sec - 1

\* C19: a watcher whose window holds fewer than 10 flags never detects a
\* breach and never dispatches an error_rate alert, whatever it reads.
C19_SmallWindowNeverBreaches ==
    window_size < 10
      => /\ ~breach.detected
         /\ ~gate.asked
         /\ ~Sent("error_rate")
         /\ "error_rate" \notin DOMAIN last_alert_times
         /\ "error_rate" \notin DOMAIN last_dispatch

\* a window of fewer than 10 flags is full of errors, and has been for more
\* lines than it holds
C19_SmallWindowAllErrors ==
    /\ window_size < 10
    /\ Processed
    /\ Len(observed) > window_size
    /\ AllErrors(observed)
    /\ Len(request_window) = window_size

\* the webhook call of the error_rate alert of the last line failed
ErrorRateCallFailed ==
    \E i \in FailureLines(console) : console[i].kind = "error_rate"

\* C20: the slot of error_rate is taken before the alert is sent and a failed
\* webhook call does not give it back: lastFired is the time of the latest
\* attempt whatever became of it, and no error_rate alert is printed or
\* posted less than cooldownSeconds after it.
C20_FailedDeliveryKeepsSlot ==
    /\ ErrorRateCallFailed
         => /\ AskedErrorRate /\ gate.ok
            /\ "error_rate" \in DOMAIN last_alert_times
            /\ last_alert_times["error_rate"] = clock
    /\ "error_rate" \in DOMAIN last_dispatch
         => /\ "error_rate" \in DOMAIN last_alert_times
            /\ last_alert_times["error_rate"] = last_dispatch["error_rate"]
    /\ (AskedErrorRate /\ gate.had_entry
           /\ clock - gate.last_alert_time < alert_cooldown_sec)
         => /\ AlertLines(console, "error_rate") = {}
            /\ \A i \in 1..Len(posts) : posts[i].kind # "error_rate"
    /\ Sent("error_rate") => AskedErrorRate /\ gate.ok

\* an error_rate alert whose webhook call raised, its slot taken
C20_FailedCallSlotTaken ==
    /\ Sent("error_rate")
    /\ \E i \in 1..Len(console) :
          console[i].line = "slack_failed" /\ console[i].kind = "error_rate"
    /\ last_alert_times["error_rate"] = clock

====
